---- MODULE Spec2Model ----
(***************************************************************************)
(* iter-grid: two dimensional indexing layered over a flat iterator.       *)
(* A Grid pairs a column count with an inner sequence; every operation of *)
(* src/src/lib.rs is an operator over (columns, inner, arguments) and an   *)
(* action that applies it to the grid under consideration.                 *)
(*                                                                         *)
(* usize arithmetic keeps its width.  With overflow checks on (the debug   *)
(* profile) an overflowing +, - or * panics; with them off (the release    *)
(* profile) it wraps modulo 2^w.  The width modelled is that of a 16 bit   *)
(* target, the narrowest usize Rust has.  A panicked usize computation is  *)
(* carried as the value PANIC, which every later step propagates.          *)
(***************************************************************************)
EXTENDS Integers, Sequences, FiniteSets

\* ------------------------------------------------------------- bounds
\* longest source sequence
MaxLen == 25
\* largest column count a grid is built with
MaxCols == 5
\* largest column/row/range argument handed to an operation
MaxArg == 5
\* largest range argument handed to iter_sub
MaxSubArg == 3
\* first element of the source range is drawn from 0..MaxFirst
MaxFirst == 1
\* number of grids built one from another in the transpose round trip
MaxDepth == 2

\* usize::MAX on a 16 bit target
USIZE_MAX == 65535
Modulus == USIZE_MAX + 1

VARIABLES
    columns,    \* Grid.columns of the grid the operation is called on
    inner,      \* Grid.inner, the items its iterator yields, in order
    origin,     \* the first grid built: [columns, inner]
    depth,      \* how many grids have been built so far
    op,         \* the last call: "grid" right after construction
    args,       \* the arguments of that call
    ret         \* what the call produced

vars == <<columns, inner, origin, depth, op, args, ret>>

\* ------------------------------------------------------- usize arithmetic
PANIC == -1

Min(a, b) == IF a <= b THEN a ELSE b

\* a + b on usize; oc = overflow checks enabled
Add(a, b, oc) ==
    IF a = PANIC \/ b = PANIC THEN PANIC
    ELSE IF a + b > USIZE_MAX THEN (IF oc THEN PANIC ELSE (a + b) % Modulus)
    ELSE a + b

\* a - b on usize
Sub(a, b, oc) ==
    IF a = PANIC \/ b = PANIC THEN PANIC
    ELSE IF a < b THEN (IF oc THEN PANIC ELSE (a - b + Modulus) % Modulus)
    ELSE a - b

\* a * b on usize
Mul(a, b, oc) ==
    IF a = PANIC \/ b = PANIC THEN PANIC
    ELSE IF a * b > USIZE_MAX THEN (IF oc THEN PANIC ELSE (a * b) % Modulus)
    ELSE a * b

\* ------------------------------------------------------ iterator adaptors
\* Iterator::skip(n): drops the first n items
Skip(s, n) == IF n >= Len(s) THEN <<>> ELSE SubSeq(s, n + 1, Len(s))

\* Iterator::take(n): at most the first n items
Take(s, n) == IF n = 0 \/ Len(s) = 0 THEN <<>> ELSE SubSeq(s, 1, Min(n, Len(s)))

\* Iterator::step_by(step), step > 0: the first item, then every step-th
StepBy(s, step) ==
    [k \in 1..((Len(s) + step - 1) \div step) |-> s[(k - 1) * step + 1]]

\* Iterator::enumerate(): pairs (0-based position, item)
Enumerate(s) == [k \in 1..Len(s) |-> <<k - 1, s[k]>>]

\* the half-open Rust range first..first+n as the items it yields
RangeSeq(first, n) == [k \in 1..n |-> first + k - 1]

\* what a call returns: a panic, or a value
Panicked == [panic |-> TRUE, columns |-> 0, items |-> <<>>]
Items(s) == [panic |-> FALSE, columns |-> 0, items |-> s]
GridOf(c, s) == [panic |-> FALSE, columns |-> c, items |-> s]

\* ------------------------------------------------------------- Grid
index_to_flat(cols, col, row, oc) == Add(Mul(cols, row, oc), col, oc)

\* faulty variant: the pair returned as (row, col)
index_from_flat_swapped(cols, index) ==
    IF cols = 0 THEN Panicked
    ELSE LET c == index % cols
         IN  Items(<<(index - c) \div cols, c>>)

index_from_flat(cols, index) ==
    IF cols = 0 THEN Panicked
    ELSE LET c == index % cols
         IN  Items(<<c, (index - c) \div cols>>)

\* faulty variant: skips row items instead of row whole rows
iter_row_unscaled(cols, src, row, oc) == Items(Take(Skip(src, row), cols))

iter_row(cols, src, row, oc) ==
    LET n == Mul(row, cols, oc)
    IN  IF n = PANIC THEN Panicked ELSE Items(Take(Skip(src, n), cols))

\* faulty variant: steps through the rows without first skipping to the column
iter_col_unskipped(cols, src, col) ==
    IF ~(col < cols) THEN Panicked ELSE Items(StepBy(src, cols))

iter_col(cols, src, col) ==
    IF ~(col < cols) THEN Panicked ELSE Items(StepBy(Skip(src, col), cols))

\* RangeBounds: a bound is Included(p), Excluded(p) or Unbounded
Included(p) == [kind |-> "Included", p |-> p]
Excluded(p) == [kind |-> "Excluded", p |-> p]
Unbounded == [kind |-> "Unbounded", p |-> 0]

\* a resolved Range start..end; PANIC in a field when resolving panicked
extract_range(bounds, max, oc) ==
    LET start == CASE bounds.start.kind = "Included" -> bounds.start.p
                   [] bounds.start.kind = "Excluded" -> Add(bounds.start.p, 1, oc)
                   [] bounds.start.kind = "Unbounded" -> 0
        end == CASE bounds.end.kind = "Included" -> Add(bounds.end.p, 1, oc)
                 [] bounds.end.kind = "Excluded" -> bounds.end.p
                 [] bounds.end.kind = "Unbounded" -> max
    IN  IF start = PANIC \/ end = PANIC \/ ~(end <= max)
        THEN [start |-> PANIC, end |-> PANIC]
        ELSE [start |-> start, end |-> end]

\* Range::contains
Contains(range, x) == range.start <= x /\ x < range.end

\* faulty variant: takes end - start items instead of that many rows
iter_rows_unscaled(cols, src, bounds, oc) ==
    LET range == extract_range(bounds, USIZE_MAX, oc)
        skip == Mul(range.start, cols, oc)
        take == Sub(range.end, range.start, oc)
    IN  IF skip = PANIC \/ take = PANIC THEN Panicked
        ELSE GridOf(cols, Take(Skip(src, skip), take))

iter_rows(cols, src, bounds, oc) ==
    LET range == extract_range(bounds, USIZE_MAX, oc)
        skip == Mul(range.start, cols, oc)
        take == Mul(Sub(range.end, range.start, oc), cols, oc)
    IN  IF skip = PANIC \/ take = PANIC THEN Panicked
        ELSE GridOf(cols, Take(Skip(src, skip), take))

iter_cols(cols, src, bounds, oc) ==
    LET range == extract_range(bounds, cols, oc)
        new_columns == Sub(range.end, range.start, oc)
        kept == SelectSeq(Enumerate(src), LAMBDA e : Contains(range, e[1] % cols))
    IN  IF new_columns = PANIC THEN Panicked
        \* i % self.columns divides by zero on the first item the filter sees
        ELSE IF cols = 0 /\ Len(src) > 0 THEN Panicked
        ELSE GridOf(new_columns, [k \in 1..Len(kept) |-> kept[k][2]])

iter_sub(cols, src, col_bounds, row_bounds, oc) ==
    LET col_range == extract_range(col_bounds, cols, oc)
        new_columns == Sub(col_range.end, col_range.start, oc)
        rows == iter_rows(cols, src, row_bounds, oc)
        sub == IF rows.panic THEN Panicked
               ELSE iter_cols(rows.columns, rows.items, col_bounds, oc)
    IN  IF new_columns = PANIC \/ sub.panic THEN Panicked
        ELSE GridOf(new_columns, sub.items)

iter_diag_bwd(cols, src, col, row, oc) ==
    LET skip == IF col > row
                THEN index_to_flat(cols, Sub(cols, 1, oc),
                                   Sub(row, Sub(Sub(cols, 1, oc), col, oc), oc), oc)
                ELSE index_to_flat(cols, Sub(row, col, oc), 0, oc)
        step == Sub(cols, 1, oc)
    IN  IF skip = PANIC \/ step = PANIC \/ step = 0 THEN Panicked
        ELSE Items(StepBy(Skip(src, skip), step))

iter_diag_fwd(cols, src, col, row, oc) ==
    LET abs_diff == IF col < row THEN row - col ELSE col - row
        diff == IF col < row THEN index_to_flat(cols, 0, abs_diff, oc)
                ELSE index_to_flat(cols, abs_diff, 0, oc)
        step == Add(cols, 1, oc)
    IN  IF diff = PANIC \/ step = PANIC \/ step = 0 THEN Panicked
        ELSE Items(StepBy(Skip(src, diff), step))

\* (0..columns).flat_map(|col| iter.clone().grid(columns).iter_col(col))
RECURSIVE FlatMapCols(_, _, _)
FlatMapCols(cols, src, col) ==
    IF col >= cols THEN <<>>
    ELSE iter_col(cols, src, col).items \o FlatMapCols(cols, src, col + 1)

\* faulty variant: the column loop starts at 1
iter_transpose_from_one(cols, src) == Items(FlatMapCols(cols, src, 1))

iter_transpose(cols, src) == Items(FlatMapCols(cols, src, 0))

into_transpose(cols, src) ==
    LET len == Len(src)
    IN  IF len = 0 THEN Panicked                 \* columns % 0
        ELSE IF ~(cols % len = 0) THEN Panicked  \* the assertion
        ELSE IF cols = 0 THEN Panicked           \* len / 0
        ELSE GridOf(len \div cols, FlatMapCols(cols, src, 0))

\* faulty variant: column and row exchanged in the call of index_to_flat
get_swapped(cols, src, col, row, oc) ==
    LET index == index_to_flat(cols, row, col, oc)
    IN  IF ~(col < cols) \/ index = PANIC THEN Panicked
        ELSE IF index >= Len(src) THEN Panicked
        ELSE Items(<<src[index + 1]>>)

get(cols, src, col, row, oc) ==
    LET index == index_to_flat(cols, col, row, oc)
    IN  IF ~(col < cols) \/ index = PANIC THEN Panicked
        ELSE IF index >= Len(src) THEN Panicked  \* index out of bounds
        ELSE Items(<<src[index + 1]>>)

\* --------------------------------------------------------------- actions
Sources == {RangeSeq(f, n) : f \in 0..MaxFirst, n \in 0..MaxLen}

Init ==
    /\ columns \in 0..MaxCols
    /\ inner \in Sources
    /\ origin = [columns |-> columns, inner |-> inner]
    /\ depth = 1
    /\ op = "grid"
    /\ args = <<>>
    /\ ret = Items(<<>>)

Fresh == op = "grid" /\ depth = 1

Call(name, a, r) ==
    /\ op' = name
    /\ args' = a
    /\ ret' = r
    /\ UNCHANGED <<columns, inner, origin, depth>>

IterRow ==
    /\ Fresh
    /\ \E row \in 0..MaxArg, oc \in BOOLEAN :
         Call("iter_row", [row |-> row], iter_row(columns, inner, row, oc))

IterCol ==
    /\ Fresh
    /\ \E col \in 0..MaxArg :
         Call("iter_col", [col |-> col], iter_col(columns, inner, col))

\* the range shapes handed to iter_rows and iter_cols
BoundArgs(m) == {Unbounded} \cup {Included(p) : p \in 0..m} \cup {Excluded(p) : p \in 0..m}
RangeArgs(m) == [start : BoundArgs(m), end : BoundArgs(m)]

\* iter_sub takes both ranges of one type: a..b, a.. or ..
Range(a, b) == [start |-> Included(a), end |-> Excluded(b)]
RangeFrom(a) == [start |-> Included(a), end |-> Unbounded]
RangeFull == [start |-> Unbounded, end |-> Unbounded]
SubArgs(m) ==
    {<<Range(cs, ce), Range(rs, re)>> : cs \in 0..m, ce \in 0..m, rs \in 0..m, re \in 0..m}
    \cup {<<RangeFrom(cs), RangeFrom(rs)>> : cs \in 0..m, rs \in 0..m}
    \cup {<<RangeFull, RangeFull>>}

\* flat indices handed to index_from_flat, and rows handed to index_to_flat and
\* get: the small ones, the ones next to usize::MAX, and the row whose offset
\* in an even number of columns wraps to a small one
FlatArgs == (0..(MaxLen + MaxArg)) \cup {USIZE_MAX - k : k \in 0..MaxArg}
RowArgs == (0..MaxArg) \cup {USIZE_MAX - k : k \in 0..1} \cup {Modulus \div 2}

IterRows ==
    /\ Fresh
    /\ \E bounds \in RangeArgs(MaxArg), oc \in BOOLEAN :
         Call("iter_rows", [bounds |-> bounds], iter_rows(columns, inner, bounds, oc))

IterCols ==
    /\ Fresh
    /\ \E bounds \in RangeArgs(MaxArg), oc \in BOOLEAN :
         Call("iter_cols", [bounds |-> bounds], iter_cols(columns, inner, bounds, oc))

IterSub ==
    /\ Fresh
    /\ \E b \in SubArgs(MaxSubArg), oc \in BOOLEAN :
         Call("iter_sub", [col_bounds |-> b[1], row_bounds |-> b[2]],
              iter_sub(columns, inner, b[1], b[2], oc))

IterDiagBwd ==
    /\ Fresh
    /\ \E col \in 0..MaxArg, row \in 0..MaxArg, oc \in BOOLEAN :
         Call("iter_diag_bwd", [col |-> col, row |-> row],
              iter_diag_bwd(columns, inner, col, row, oc))

IterDiagFwd ==
    /\ Fresh
    /\ \E col \in 0..MaxArg, row \in 0..MaxArg, oc \in BOOLEAN :
         Call("iter_diag_fwd", [col |-> col, row |-> row],
              iter_diag_fwd(columns, inner, col, row, oc))

Get ==
    /\ Fresh
    /\ \E col \in 0..MaxArg, row \in RowArgs, oc \in BOOLEAN :
         Call("get", [col |-> col, row |-> row], get(columns, inner, col, row, oc))

IndexFromFlat ==
    /\ Fresh
    /\ \E index \in FlatArgs :
         Call("index_from_flat", [index |-> index], index_from_flat(columns, index))

IndexToFlat ==
    /\ Fresh
    /\ \E col \in 0..MaxArg, row \in RowArgs, oc \in BOOLEAN :
         LET flat == index_to_flat(columns, col, row, oc)
         IN  Call("index_to_flat", [col |-> col, row |-> row],
                  IF flat = PANIC THEN Panicked ELSE Items(<<flat>>))

IntoTranspose ==
    /\ Fresh
    /\ Call("into_transpose", <<>>, into_transpose(columns, inner))

\* iter_transpose consumes a grid nothing has been called on yet
IterTranspose ==
    /\ op = "grid"
    /\ Call("iter_transpose", <<>>, iter_transpose(columns, inner))

\* IntoGrid::grid on the items an iterator yielded
Regrid ==
    /\ op = "iter_transpose"
    /\ ~ret.panic
    /\ depth < MaxDepth
    /\ \E c \in 0..MaxLen :
         /\ columns' = c
         /\ inner' = ret.items
         /\ depth' = depth + 1
         /\ op' = "grid"
         /\ args' = [columns |-> c]
         /\ UNCHANGED <<origin, ret>>

Next ==
    \/ IterRow
    \/ IterCol
    \/ IterRows
    \/ IterCols
    \/ IterSub
    \/ IterDiagBwd
    \/ IterDiagFwd
    \/ Get
    \/ IndexFromFlat
    \/ IndexToFlat
    \/ IntoTranspose
    \/ IterTranspose

Spec == Init /\ [][Next]_vars

\* building a grid, transposing it, and building the next grid from the result
NextRoundTrip ==
    \/ IterTranspose
    \/ Regrid

SpecRoundTrip == Init /\ [][NextRoundTrip]_vars

\* ---------------------------------------------------------------- claims
\* the grid holds whole rows only
Rect == columns > 0 /\ Len(inner) % columns = 0
NRows == Len(inner) \div columns
\* the source item at column c of row r
Cell(c, r) == inner[r * columns + c + 1]
\* the source items at flat offsets lo, lo+1, .. hi-1
Offsets(lo, hi) == [k \in 1..(IF hi > lo THEN hi - lo ELSE 0) |-> inner[lo + k]]
\* the start a range bound stands for
StartOf(b) == CASE b.kind = "Included" -> b.p
                [] b.kind = "Excluded" -> b.p + 1
                [] b.kind = "Unbounded" -> 0
IsRange(b) == b.start.kind = "Included" /\ b.end.kind = "Excluded"

\* C1: with columns > 0, iter_row(r) yields in order exactly the source items
\* at flat offsets r*columns .. min(r*columns + columns, n) - 1; on a source of
\* rows*columns items and r < rows these are the columns items of row r.
C1_IterRowYieldsRow ==
    (op = "iter_row" /\ columns > 0) =>
        LET lo == args.row * columns
        IN  /\ ~ret.panic
            /\ ret.items = Offsets(lo, Min(lo + columns, Len(inner)))
            /\ (Rect /\ args.row < NRows) =>
                   /\ Len(ret.items) = columns
                   /\ \A c \in 0..(columns - 1) : ret.items[c + 1] = Cell(c, args.row)
            /\ (columns = 3 /\ inner = RangeSeq(0, 10) /\ args.row = 1) =>
                   ret.items = <<3, 4, 5>>

\* C1 witness: the last, ragged row of a 10 item source in 3 columns is cut short
C1_Witness ==
    /\ op = "iter_row" /\ columns = 3 /\ Len(inner) = 10 /\ args.row = 3
    /\ ret.items = <<inner[10]>>

\* C2: with c < columns on a source of rows*columns items, iter_col(c) yields
\* one item per row, in row order, the k-th being the item at flat offset
\* index_to_flat(c, k), and nothing else.
C2_IterColYieldsColumn ==
    (op = "iter_col" /\ Rect /\ args.col < columns) =>
        /\ ~ret.panic
        /\ Len(ret.items) = NRows
        /\ \A k \in 0..(NRows - 1) :
               ret.items[k + 1] = inner[index_to_flat(columns, args.col, k, TRUE) + 1]
        /\ (columns = 5 /\ inner = RangeSeq(0, 25) /\ args.col = 3) =>
               ret.items = <<3, 8, 13, 18, 23>>

\* C2 witness: a column of a grid with several rows and several columns
C2_Witness ==
    /\ op = "iter_col" /\ Rect /\ columns = 4 /\ NRows = 3 /\ args.col = 2
    /\ ret.items = <<inner[3], inner[7], inner[11]>>

\* C3: on a source of rows*columns items, iter_sub(cs..ce, rs..re) with
\* cs <= ce <= columns and rs <= re <= rows returns a grid of ce-cs columns
\* holding exactly the items at offsets r*columns + c for r in [rs, re) and
\* c in [cs, ce), row by row.
C3_IterSubRectangle ==
    (/\ op = "iter_sub" /\ Rect
     /\ IsRange(args.col_bounds) /\ IsRange(args.row_bounds)
     /\ args.col_bounds.start.p <= args.col_bounds.end.p
     /\ args.col_bounds.end.p <= columns
     /\ args.row_bounds.start.p <= args.row_bounds.end.p
     /\ args.row_bounds.end.p <= NRows) =>
        LET cs == args.col_bounds.start.p
            rs == args.row_bounds.start.p
            w == args.col_bounds.end.p - cs
            h == args.row_bounds.end.p - rs
        IN  /\ ~ret.panic
            /\ ret.columns = w
            /\ ret.items = [k \in 1..(w * h) |->
                               Cell(cs + ((k - 1) % w), rs + ((k - 1) \div w))]
            /\ (columns = 5 /\ inner = RangeSeq(0, 25)
                /\ cs = 1 /\ w = 2 /\ rs = 1 /\ h = 2) => ret.items = <<6, 7, 11, 12>>

\* C3 witness: the 2 by 2 rectangle at (1, 1) of the 5 by 5 grid of 0..25
C3_Witness ==
    /\ op = "iter_sub" /\ columns = 5 /\ inner = RangeSeq(0, 25)
    /\ args.col_bounds = Range(1, 3) /\ args.row_bounds = Range(1, 3)
    /\ ret = GridOf(2, <<6, 7, 11, 12>>)

\* C4: when the source length len > 0 is divisible by columns > 0,
\* into_transpose does not abort and returns a grid of len / columns columns
\* holding the source in column-major order; it aborts only when len is not
\* divisible by columns.
C4_IntoTranspose ==
    (op = "into_transpose" /\ columns > 0 /\ Len(inner) > 0) =>
        IF Len(inner) % columns = 0
        THEN /\ ~ret.panic
             /\ ret.columns = NRows
             /\ ret.items = [k \in 1..Len(inner) |->
                                Cell((k - 1) \div NRows, (k - 1) % NRows)]
        ELSE ret.panic

\* C5: transposing a source of rows*columns items (rows, columns > 0), building
\* a grid of rows columns from the result and transposing again yields the
\* original source, item for item.
C5_TransposeRoundTrip ==
    (/\ op = "iter_transpose" /\ depth = 2
     /\ origin.columns > 0 /\ Len(origin.inner) > 0
     /\ Len(origin.inner) % origin.columns = 0
     /\ columns = Len(origin.inner) \div origin.columns) =>
        /\ ~ret.panic
        /\ ret.items = origin.inner

\* C5 witness: a 2 row, 3 column source came back after two transpositions
\* through a grid that is not the source itself
C5_Witness ==
    /\ op = "iter_transpose" /\ depth = 2
    /\ origin.columns = 3 /\ Len(origin.inner) = 6 /\ columns = 2
    /\ inner # origin.inner
    /\ ret.items = origin.inner

\* C6: on a source of rows*columns items and a cell (col, row) inside it,
\* iter_diag_fwd(col, row) yields exactly the items of the top-left to
\* bottom-right diagonal through the cell, from its topmost cell down, and no
\* item from a position that wrapped around into a later row.
C6_DiagFwd ==
    (/\ op = "iter_diag_fwd" /\ Rect
     /\ args.col < columns /\ args.row < NRows) =>
        LET c0 == IF args.row >= args.col THEN 0 ELSE args.col - args.row
            r0 == IF args.row >= args.col THEN args.row - args.col ELSE 0
            n == Min(columns - c0, NRows - r0)
        IN  /\ ~ret.panic
            /\ ret.items = [k \in 1..n |-> Cell(c0 + k - 1, r0 + k - 1)]

\* C7: on a source of rows*columns items with columns >= 2 and a cell
\* (col, row) inside it, iter_diag_bwd(col, row) does not abort and yields
\* exactly the items of the top-right to bottom-left diagonal that contains
\* the cell, from its topmost cell down.
C7_DiagBwd ==
    (/\ op = "iter_diag_bwd" /\ Rect /\ columns >= 2
     /\ args.col < columns /\ args.row < NRows) =>
        LET c0 == Min(args.col + args.row, columns - 1)
            r0 == args.col + args.row - c0
            n == Min(c0 + 1, NRows - r0)
        IN  /\ ~ret.panic
            /\ ret.items = [k \in 1..n |-> Cell(c0 - (k - 1), r0 + k - 1)]

\* C8 as stated: with col < columns, get(col, row) never aborts; it returns
\* the item at offset row*columns + col when that is less than the source
\* length and an absent result otherwise.
C8_GetNeverAborts ==
    (op = "get" /\ args.col < columns) =>
        /\ ~ret.panic
        /\ ret.items = Offsets(args.row * columns + args.col,
                               Min(args.row * columns + args.col + 1, Len(inner)))

\* C8 amended: with col < columns and row*columns + col representable in
\* usize, get(col, row) returns the item at that offset when it is less than
\* the source length and aborts (index out of bounds) when it is not; with
\* col >= columns it aborts.
C8_GetOrAbort ==
    (op = "get") =>
        LET offset == args.row * columns + args.col
        IN  /\ ~(args.col < columns) => ret.panic
            /\ (args.col < columns /\ offset <= USIZE_MAX) =>
                   IF offset < Len(inner)
                   THEN ~ret.panic /\ ret.items = <<inner[offset + 1]>>
                   ELSE ret.panic

\* C8 witness: a cell of a row the source does not have
C8_Witness ==
    /\ op = "get" /\ columns = 3 /\ Len(inner) = 10
    /\ args.col = 1 /\ args.row = 3 /\ ret.panic

\* C9: with columns > 0 and a representable flat index i, index_from_flat(i)
\* is (i % columns, i / columns) with the column below columns, and
\* index_to_flat takes it back to i; for col < columns and a row whose flat
\* index is representable, index_from_flat(index_to_flat(col, row)) is
\* (col, row); with columns = 0 index_from_flat aborts.
C9_FlatRoundTrip ==
    /\ op = "index_from_flat" =>
           IF columns = 0 THEN ret.panic
           ELSE /\ ~ret.panic
                /\ ret.items = <<args.index % columns, args.index \div columns>>
                /\ ret.items[1] < columns
                /\ \A oc \in BOOLEAN :
                       index_to_flat(columns, ret.items[1], ret.items[2], oc) = args.index
    /\ (/\ op = "index_to_flat" /\ args.col < columns
        /\ columns * args.row + args.col <= USIZE_MAX) =>
           /\ ~ret.panic
           /\ ret.items = <<columns * args.row + args.col>>
           /\ index_from_flat(columns, ret.items[1]) = Items(<<args.col, args.row>>)

\* C9 witness: the largest flat index, taken apart in a grid of 4 columns
C9_Witness ==
    /\ op = "index_from_flat" /\ columns = 4 /\ args.index = USIZE_MAX
    /\ ret.items = <<3, 16383>>

\* C10: with columns > 0, iter_rows with an unbounded end does not abort and
\* returns a grid of the same columns holding exactly the source items from
\* offset start*columns to the end of the source.
C10_IterRowsUnboundedEnd ==
    (op = "iter_rows" /\ columns > 0 /\ args.bounds.end.kind = "Unbounded") =>
        /\ ~ret.panic
        /\ ret.columns = columns
        /\ ret.items = Offsets(StartOf(args.bounds.start) * columns, Len(inner))

====
